---------------------------- MODULE Spec2Model ----------------------------
(***************************************************************************)
(* Four-bar linkage animation, static/plot.js: runAnimation fetches the    *)
(* solver response, scans it for the data extents, builds one frame per    *)
(* time step, draws the first frame (Plotly.newPlot) and then plays the    *)
(* frame list in a self-restarting loop (animateLoop, Plotly.animate).     *)
(*                                                                         *)
(* Numbers.  Joint coordinates are integers.  The quantities the code      *)
(* derives with the factors 0.2, 0.5 and 0.6 (padding, xRange, yRange, cx, *)
(* cy, span, the axis ranges) are held exactly, in tenths of a unit.       *)
(* Math.min() and Math.max() of no arguments are Infinity and -Infinity;   *)
(* the non-finite values are held as strings.                              *)
(*                                                                         *)
(* Indices.  i, rtPos count from 0 as in the source; sequences are 1-based,*)
(* so JavaScript's a[i] is a[i + 1] here.                                  *)
(***************************************************************************)
EXTENDS Integers, Sequences, FiniteSets

VARIABLES
    pc,        \* position of runAnimation
    data,      \* the parsed solver response (line 16)
    view,      \* xmin, xmax, ymin, ymax, padding, xRange, yRange (lines 31-39)
    frames,    \* the frame list (line 18, filled by the loop of line 44)
    i,         \* the loop index of line 44
    rtLog,     \* commands the render target has received, oldest first
    rtShown,   \* the scene the render target displays (<<>>: none)
    rtWindow,  \* the axis ranges the render target was given (<<>>: none)
    rtQueue,   \* play requests in flight at the render target, oldest first
    rtPos,     \* frames of the oldest request already presented
    signals    \* completion signals delivered, their .then callback not yet run

vars == <<pc, data, view, frames, i, rtLog, rtShown, rtWindow, rtQueue, rtPos, signals>>

---------------------------------------------------------------------------
(* Bounds of the model *)

\* Longest position sequence the solver returns.
MaxLen == 2

\* Joint coordinates of the first pose range over 0..MaxCoord.
MaxCoord == 1

\* The render target's command log keeps the first MaxLog commands.
MaxLog == 3

---------------------------------------------------------------------------
(* Solver responses *)

Joints == {"A", "B", "C", "D"}

Coords == 0..MaxCoord

Positions == Coords \X Coords

\* How each joint moves from one time step to the next.
Still == [j \in Joints |-> <<0, 0>>]

Crank == [A |-> <<0, 0>>, B |-> <<-1, 1>>, C |-> <<-2, 0>>, D |-> <<-1, -1>>]

Drift == [A |-> <<1, 0>>, B |-> <<0, -1>>, C |-> <<1, 1>>, D |-> <<0, 0>>]

Patterns == {Still, Crank, Drift}

\* n positions starting at p, each v further than the one before.
Track(p, v, n) == [k \in 1..n |-> <<p[1] + (k - 1) * v[1], p[2] + (k - 1) * v[2]>>]

\* Responses of the shape section 6 of the interface promises: four
\* sequences of one length n >= 1.
MotionSeries ==
    { [j \in Joints |-> Track(p0[j], pat[j], n)] :
        p0 \in [Joints -> Positions], pat \in Patterns, n \in 1..MaxLen }

\* The pose sequence every ragged response is cut from.
BasePose == [A |-> <<0, 0>>, B |-> <<1, 0>>, C |-> <<1, 1>>, D |-> <<0, 1>>]

\* Responses with any of the four sequences absent, and each present one of
\* any length 0..MaxLen.
RaggedResponses ==
    { [j \in present |-> Track(BasePose[j], Crank[j], len[j])] :
        present \in SUBSET Joints, len \in [Joints -> 0..MaxLen] }

Responses == MotionSeries \cup RaggedResponses

\* All four sequences present, of one length.
WellFormed(d) ==
    /\ DOMAIN d = Joints
    /\ \A j \in Joints : Len(d[j]) = Len(d.A)

---------------------------------------------------------------------------
(* Bounds computation, lines 23-39 *)

Xs(ps) == [k \in 1..Len(ps) |-> ps[k][1]]

Ys(ps) == [k \in 1..Len(ps) |-> ps[k][2]]

AllX(d) == Xs(d.A) \o Xs(d.B) \o Xs(d.C) \o Xs(d.D)

AllY(d) == Ys(d.A) \o Ys(d.B) \o Ys(d.C) \o Ys(d.D)

Range(s) == { s[k] : k \in 1..Len(s) }

MathMin(s) ==
    IF s = <<>> THEN "Infinity"
    ELSE CHOOSE m \in Range(s) : \A v \in Range(s) : m <= v

MathMax(s) ==
    IF s = <<>> THEN "-Infinity"
    ELSE CHOOSE m \in Range(s) : \A v \in Range(s) : m >= v

Max2(a, b) == IF a >= b THEN a ELSE b

\* span0 = Math.max(xmax - xmin, ymax - ymin)
Span0(xmin, xmax, ymin, ymax) == Max2(xmax - xmin, ymax - ymin)

\* padding = 0.2 * span0, in tenths
Padding(xmin, xmax, ymin, ymax) == 2 * Span0(xmin, xmax, ymin, ymax)

\* Variant: the padding applied inwards.
PaddedRangeInward(lo, hi, padding) == <<10 * lo + padding, 10 * hi - padding>>

\* [lo - padding, hi + padding], in tenths
PaddedRange(lo, hi, padding) == <<10 * lo - padding, 10 * hi + padding>>

ComputeView(d) ==
    IF AllX(d) = <<>>
    THEN \* Infinity - (-Infinity) = Infinity, 0.2 * -Infinity = -Infinity
         [xmin |-> "Infinity", xmax |-> "-Infinity",
          ymin |-> "Infinity", ymax |-> "-Infinity",
          padding |-> "-Infinity",
          xRange |-> <<"Infinity", "-Infinity">>,
          yRange |-> <<"Infinity", "-Infinity">>]
    ELSE LET xmin == MathMin(AllX(d))
             xmax == MathMax(AllX(d))
             ymin == MathMin(AllY(d))
             ymax == MathMax(AllY(d))
             padding == Padding(xmin, xmax, ymin, ymax)
         IN  [xmin |-> xmin, xmax |-> xmax, ymin |-> ymin, ymax |-> ymax,
              padding |-> padding,
              xRange |-> PaddedRange(xmin, xmax, padding),
              yRange |-> PaddedRange(ymin, ymax, padding)]

---------------------------------------------------------------------------
(* Frame of time step i, lines 46-90 *)

Min2(a, b) == IF a <= b THEN a ELSE b

\* Array.prototype.slice(0, end): the first end elements, all when shorter.
Slice0(s, end) == SubSeq(s, 1, Min2(end, Len(s)))

\* Variant: the polyline left open, without the closing point.
LinkageXOpen(d, k) == <<d.A[k + 1][1], d.B[k + 1][1], d.C[k + 1][1], d.D[k + 1][1]>>

LinkageX(d, k) == <<d.A[k + 1][1], d.B[k + 1][1], d.C[k + 1][1], d.D[k + 1][1], d.A[k + 1][1]>>

LinkageY(d, k) == <<d.A[k + 1][2], d.B[k + 1][2], d.C[k + 1][2], d.D[k + 1][2], d.A[k + 1][2]>>

LabelsX(d, k) == <<d.A[k + 1][1], d.B[k + 1][1], d.C[k + 1][1], d.D[k + 1][1]>>

LabelsY(d, k) == <<d.A[k + 1][2], d.B[k + 1][2], d.C[k + 1][2], d.D[k + 1][2]>>

\* Variant: slice(0, i), the current step left out.
TrailXShort(d, k) == Xs(Slice0(d.C, k))

TrailX(d, k) == Xs(Slice0(d.C, k + 1))

TrailY(d, k) == Ys(Slice0(d.C, k + 1))

Frame(d, k) ==
    [data |-> <<
        [x |-> LinkageX(d, k), y |-> LinkageY(d, k), mode |-> "lines+markers"],
        [x |-> LabelsX(d, k), y |-> LabelsY(d, k), mode |-> "text",
         text |-> <<"A", "B", "C", "D">>],
        [x |-> TrailX(d, k), y |-> TrailY(d, k), mode |-> "lines"] >>]

---------------------------------------------------------------------------
(* Display window of the initial plot, lines 97-112 *)

\* cx = 0.5 * (lo + hi), in tenths
Centre(lo, hi) == 5 * (lo + hi)

\* Variant: the span taken from the x extent alone.
DisplaySpanXOnly(v) == 6 * (v.xmax - v.xmin)

\* span = Math.max(xmax - xmin, ymax - ymin) * 0.6, in tenths
DisplaySpan(v) == 6 * Span0(v.xmin, v.xmax, v.ymin, v.ymax)

DisplayWindow(v) ==
    LET cx == Centre(v.xmin, v.xmax)
        cy == Centre(v.ymin, v.ymax)
        span == DisplaySpan(v)
    IN  [xaxis |-> <<cx - span, cx + span>>,
         yaxis |-> <<cy - span, cy + span>>]

---------------------------------------------------------------------------
(* The render target *)

\* The log keeps the first MaxLog commands.
Logged(log, cmd) == IF Len(log) < MaxLog THEN Append(log, cmd) ELSE log

---------------------------------------------------------------------------
(* runAnimation *)

Init ==
    /\ pc = "fetch"
    /\ data \in Responses
    /\ view = <<>>
    /\ frames = <<>>
    /\ i = 0
    /\ rtLog = <<>>
    /\ rtShown = <<>>
    /\ rtWindow = <<>>
    /\ rtQueue = <<>>
    /\ rtPos = 0
    /\ signals = 0

\* Lines 10-16: the response arrives and parses.
Fetch ==
    /\ pc = "fetch"
    /\ pc' = "bounds"
    /\ UNCHANGED <<data, view, frames, i, rtLog, rtShown, rtWindow, rtQueue, rtPos, signals>>

\* Lines 10-16: fetch or response.json() rejects, and runAnimation with it.
FetchFail ==
    /\ pc = "fetch"
    /\ pc' = "error"
    /\ UNCHANGED <<data, view, frames, i, rtLog, rtShown, rtWindow, rtQueue, rtPos, signals>>

\* Lines 23-39.  data.J.forEach throws a TypeError when data.J is undefined.
ScanBounds ==
    /\ pc = "bounds"
    /\ IF DOMAIN data = Joints
       THEN /\ view' = ComputeView(data)
            /\ pc' = "build"
       ELSE /\ pc' = "error"
            /\ UNCHANGED view
    /\ UNCHANGED <<data, frames, i, rtLog, rtShown, rtWindow, rtQueue, rtPos, signals>>

\* Lines 44-91, one iteration.  data.J[i][0] throws a TypeError when data.J
\* has no element i.
BuildFrame ==
    /\ pc = "build"
    /\ i < Len(data.A)
    /\ IF \A j \in Joints : i < Len(data[j])
       THEN /\ frames' = Append(frames, Frame(data, i))
            /\ i' = i + 1
            /\ UNCHANGED pc
       ELSE /\ pc' = "error"
            /\ UNCHANGED <<frames, i>>
    /\ UNCHANGED <<data, view, rtLog, rtShown, rtWindow, rtQueue, rtPos, signals>>

\* Line 44: the loop ends when i reaches data.A.length.
BuildDone ==
    /\ pc = "build"
    /\ ~(i < Len(data.A))
    /\ pc' = "plot"
    /\ UNCHANGED <<data, view, frames, i, rtLog, rtShown, rtWindow, rtQueue, rtPos, signals>>

\* Variant: the initial plot shows the last frame.
InitialPlotLastFrame ==
    /\ pc = "plot"
    /\ IF frames = <<>>
       THEN /\ pc' = "error"
            /\ UNCHANGED <<rtLog, rtShown, rtWindow>>
       ELSE /\ rtLog' = Logged(rtLog, "newPlot")
            /\ rtShown' = frames[Len(frames)].data
            /\ rtWindow' = DisplayWindow(view)
            /\ pc' = "loop"
    /\ UNCHANGED <<data, view, frames, i, rtQueue, rtPos, signals>>

\* Lines 97-119.  frames[0].data throws a TypeError when frames is empty.
InitialPlot ==
    /\ pc = "plot"
    /\ IF frames = <<>>
       THEN /\ pc' = "error"
            /\ UNCHANGED <<rtLog, rtShown, rtWindow>>
       ELSE /\ rtLog' = Logged(rtLog, "newPlot")
            /\ rtShown' = frames[1].data
            /\ rtWindow' = DisplayWindow(view)
            /\ pc' = "loop"
    /\ UNCHANGED <<data, view, frames, i, rtQueue, rtPos, signals>>

\* Lines 126-130: Plotly.animate("plot", frames, {mode: "afterall"}) queues
\* one pass over frames behind the requests already in flight.
Animate ==
    /\ rtQueue' = Append(rtQueue, frames)
    /\ rtLog' = Logged(rtLog, "animate")

\* Line 135: the first call of animateLoop; runAnimation then returns.
StartLoop ==
    /\ pc = "loop"
    /\ Animate
    /\ pc' = "returned"
    /\ UNCHANGED <<data, view, frames, i, rtShown, rtWindow, rtPos, signals>>

\* The render target presents the next frame of the oldest request.
RenderFrame ==
    /\ rtQueue # <<>>
    /\ rtPos < Len(rtQueue[1])
    /\ rtShown' = rtQueue[1][rtPos + 1].data
    /\ rtPos' = rtPos + 1
    /\ UNCHANGED <<pc, data, view, frames, i, rtLog, rtWindow, rtQueue, signals>>

\* The render target has presented every frame of the oldest request: the
\* promise of that Plotly.animate call resolves.
PassComplete ==
    /\ rtQueue # <<>>
    /\ rtPos = Len(rtQueue[1])
    /\ rtQueue' = Tail(rtQueue)
    /\ rtPos' = 0
    /\ signals' = signals + 1
    /\ UNCHANGED <<pc, data, view, frames, i, rtLog, rtShown, rtWindow>>

\* Variant: the .then callback calls animateLoop twice.
ThenRestartTwice ==
    /\ signals > 0
    /\ signals' = signals - 1
    /\ rtQueue' = Append(Append(rtQueue, frames), frames)
    /\ rtLog' = Logged(Logged(rtLog, "animate"), "animate")
    /\ UNCHANGED <<pc, data, view, frames, i, rtShown, rtWindow, rtPos>>

\* Variant: the .then callback does not call animateLoop.
ThenNoRestart ==
    /\ signals > 0
    /\ signals' = signals - 1
    /\ UNCHANGED <<pc, data, view, frames, i, rtLog, rtShown, rtWindow, rtQueue, rtPos>>

\* Lines 130-132: the .then callback runs animateLoop again.
ThenRestart ==
    /\ signals > 0
    /\ signals' = signals - 1
    /\ Animate
    /\ UNCHANGED <<pc, data, view, frames, i, rtShown, rtWindow, rtPos>>

Next ==
    \/ Fetch
    \/ FetchFail
    \/ ScanBounds
    \/ BuildFrame
    \/ BuildDone
    \/ InitialPlot
    \/ StartLoop
    \/ RenderFrame
    \/ PassComplete
    \/ ThenRestart

\* runAnimation runs once per solver response of the shapes the interface
\* allows and forbids alike.
Spec == Init /\ [][Next]_vars

\* The playback runs: the responses cut from the one base pose sequence.
InitPlay ==
    /\ pc = "fetch"
    /\ data \in RaggedResponses
    /\ view = <<>>
    /\ frames = <<>>
    /\ i = 0
    /\ rtLog = <<>>
    /\ rtShown = <<>>
    /\ rtWindow = <<>>
    /\ rtQueue = <<>>
    /\ rtPos = 0
    /\ signals = 0

PlaySpec == InitPlay /\ [][Next]_vars

\* The render target keeps presenting frames and resolves the promise of a
\* finished pass; the event loop runs a resolved promise's .then callback.
FairSpec ==
    /\ InitPlay
    /\ [][Next]_vars
    /\ WF_vars(RenderFrame)
    /\ WF_vars(PassComplete)
    /\ WF_vars(ThenRestart)

---------------------------------------------------------------------------
(* Vocabulary of the properties *)

\* The response is a Motion Series: four sequences of one length N >= 1.
ValidSeries == WellFormed(data) /\ Len(data.A) >= 1

\* runAnimation has computed the bounds and not thrown.
BoundsDone == pc \in {"build", "plot", "loop", "returned"}

\* The frame loop has run to its end.
AssemblyDone == pc \in {"plot", "loop", "returned"}

\* runAnimation has started the loop and returned.
Playing == pc = "returned"

\* The m-th point of a trace of a frame.
PointOf(tr, m) == <<tr.x[m], tr.y[m]>>

\* Every position of every joint at every time step of the response.
EveryPosition == UNION { Range(data[j]) : j \in DOMAIN data }

\* A play request was just issued: one pass over the frame list is in
\* flight and stands before Frame 0.
PassAtStart == Len(rtQueue) = 1 /\ rtQueue[1] = frames /\ rtPos = 0

\* A pass has signalled completion and its restart has not yet run.
PassDone == signals = 1

---------------------------------------------------------------------------
(* C1 *)

C1_Balance ==
    /\ Len(rtQueue) <= 1
    /\ signals <= 1
    /\ Len(rtQueue) + signals = (IF Playing THEN 1 ELSE 0)
    /\ PassDone => rtQueue = <<>>

C1_Step ==
    \* a completion signal comes only after all N frames of the pass
    /\ signals' > signals => rtPos = Len(frames) /\ rtQueue' = <<>>
    \* a consumed completion signal issues exactly one play request
    /\ signals' < signals => Len(rtQueue') = Len(rtQueue) + 1
    \* a play request is issued only with none in flight: at startup, or on
    \* the completion signal of the pass before
    /\ Len(rtQueue') > Len(rtQueue) =>
          /\ rtQueue = <<>>
          /\ Len(rtQueue') = 1
          /\ (pc = "loop" /\ signals = 0) \/ (Playing /\ signals = 1 /\ signals' = 0)

\* C1: in the playback loop every pass-completion signal is followed by
\* exactly one new play request, at most one play request is in flight in
\* any reachable state, and the request of pass k+1 is issued only after the
\* completion signal of pass k (which comes after the N frame advances of
\* pass k): once playing, exactly one of "a pass in flight" and "a completion
\* signal awaiting its restart" holds.
C1_OneRestartPerPass == []C1_Balance /\ [][C1_Step]_vars

\* A second pass is in flight: the restart after the first completion.
C1_Witness ==
    /\ rtLog = <<"newPlot", "animate", "animate">>
    /\ Len(rtQueue) = 1
    /\ Len(frames) = MaxLen
    /\ rtPos = 1

---------------------------------------------------------------------------
(* C2 *)

\* C2: the trace of Frame i has exactly i+1 points, its k-th point is the
\* C-position of Pose k, and for i >= 1 it is the trace of Frame i-1 with the
\* C-position of Pose i appended.  (k below is i+1: the frame's 1-based place.)
C2_TraceIsPrefixOfC ==
    /\ \A k \in 1..Len(frames) :
          LET tr == frames[k].data[3]
          IN  /\ Len(tr.x) = k
              /\ Len(tr.y) = k
              /\ \A m \in 1..k : PointOf(tr, m) = data.C[m]
              /\ k >= 2 =>
                    /\ tr.x = Append(frames[k - 1].data[3].x, data.C[k][1])
                    /\ tr.y = Append(frames[k - 1].data[3].y, data.C[k][2])
    /\ AssemblyDone => Len(frames) = Len(data.A)

\* The frames of a series whose joint C moves are all built.
C2_Witness ==
    /\ pc = "plot"
    /\ ValidSeries
    /\ Len(frames) = MaxLen
    /\ data.C[1] # data.C[2]

---------------------------------------------------------------------------
(* C3 *)

\* C3: for a Motion Series of N >= 1 poses the assembled frame list has
\* exactly N frames, and the linkage polyline of Frame i is the 5-point list
\* A_i, B_i, C_i, D_i, A_i of Pose i, so its first and last points are Pose
\* i's A-position.
C3_ClosedLinkagePerPose ==
    (AssemblyDone /\ ValidSeries) =>
        /\ Len(frames) = Len(data.A)
        /\ \A k \in 1..Len(data.A) :
              LET ln == frames[k].data[1]
              IN  /\ Len(ln.x) = 5
                  /\ Len(ln.y) = 5
                  /\ PointOf(ln, 1) = data.A[k]
                  /\ PointOf(ln, 2) = data.B[k]
                  /\ PointOf(ln, 3) = data.C[k]
                  /\ PointOf(ln, 4) = data.D[k]
                  /\ PointOf(ln, 5) = data.A[k]

\* Assembly is done for a series whose last pose has four distinct joints,
\* A having moved since the first pose.
C3_Witness ==
    /\ AssemblyDone
    /\ ValidSeries
    /\ Len(data.A) = MaxLen
    /\ data.A[1] # data.A[MaxLen]
    /\ Cardinality({ data[j][MaxLen] : j \in Joints }) = 4

---------------------------------------------------------------------------
(* C4 *)

\* C4: for a non-empty Motion Series the padded View Window (xRange,
\* yRange; padding = 0.2 * max(xmax-xmin, ymax-ymin)) contains every position
\* of every joint at every time step.  (The window is in tenths.)
C4_PaddedWindowContainsAll ==
    (BoundsDone /\ ValidSeries) =>
        /\ view.padding = 2 * Max2(view.xmax - view.xmin, view.ymax - view.ymin)
        /\ \A p \in EveryPosition :
              /\ view.xRange[1] <= 10 * p[1]
              /\ 10 * p[1] <= view.xRange[2]
              /\ view.yRange[1] <= 10 * p[2]
              /\ 10 * p[2] <= view.yRange[2]

\* The bounds of a series with a positive padding are computed.
C4_Witness ==
    /\ BoundsDone
    /\ ValidSeries
    /\ Len(data.A) = MaxLen
    /\ view.padding > 0
    /\ view.xmax - view.xmin # view.ymax - view.ymin

---------------------------------------------------------------------------
(* C5 *)

\* C5: whenever the response misses one of the four sequences, or the four
\* do not all have the same length, or their length is zero, runAnimation
\* stops with an error and no animation starts: the render target receives
\* no initial-render command and no play request.
C5_MalformedNeverRenders ==
    ~ValidSeries =>
        /\ rtLog = <<>>
        /\ rtQueue = <<>>
        /\ pc \notin {"loop", "returned"}

---------------------------------------------------------------------------
(* C6 *)

\* C6: an empty Motion Series (four sequences of length 0) is rejected
\* before frame assembly: in no reachable state has the frame loop run to its
\* end, leaving a frame list of length 0.
C6_NoEmptyAssembly == (WellFormed(data) /\ Len(data.A) = 0) => ~AssemblyDone

---------------------------------------------------------------------------
(* C7 *)

\* C7: when all positions of all joints at all steps coincide, the View
\* Window handed to the render target has strictly positive width on both
\* axes.
C7_WindowNeverZeroArea ==
    (rtLog # <<>> /\ Cardinality(EveryPosition) = 1) =>
        /\ rtWindow.xaxis[1] < rtWindow.xaxis[2]
        /\ rtWindow.yaxis[1] < rtWindow.yaxis[2]

---------------------------------------------------------------------------
(* C8 *)

\* C8: the first command the render target receives is the one initial
\* render, showing Frame 0 under the display window; no play request is
\* issued before it, the initial render is never issued again, and every
\* later command is a play request.
C8_RenderOnceThenPlay ==
    /\ rtLog # <<>> =>
          /\ rtLog[1] = "newPlot"
          /\ \A k \in 2..Len(rtLog) : rtLog[k] = "animate"
          /\ rtWindow = DisplayWindow(view)
    /\ rtLog = <<"newPlot">> =>
          /\ rtShown = frames[1].data
          /\ rtQueue = <<>> \/ rtPos = 0
    /\ (rtQueue # <<>> \/ signals > 0 \/ Playing) =>
          /\ Len(rtLog) >= 2
          /\ rtLog[1] = "newPlot"
          /\ rtLog[2] = "animate"
    /\ (ValidSeries /\ pc = "loop") => rtLog = <<"newPlot">>

\* The loop has restarted at least once after the initial render of a
\* series whose first and last frames differ.
C8_Witness ==
    /\ ValidSeries
    /\ Len(rtLog) = MaxLog
    /\ Len(frames) = MaxLen
    /\ frames[1] # frames[MaxLen]
    /\ PassDone

---------------------------------------------------------------------------
(* C9 *)

\* C9: once playing, the loop has no terminal state: every pass eventually
\* signals completion, every completion is eventually followed by a new pass
\* standing before Frame 0 of the same frame list, and playing is never left
\* nor the frame list changed.
C9_LoopNeverEnds ==
    /\ [](Playing => <>PassDone)
    /\ [](PassDone => <>PassAtStart)
    /\ [][Playing => (Playing' /\ frames' = frames)]_vars

\* A restart stands before Frame 0 with the log already full.
C9_Witness ==
    /\ Playing
    /\ PassAtStart
    /\ Len(frames) = MaxLen
    /\ Len(rtLog) = MaxLog
    /\ rtShown = frames[MaxLen].data

---------------------------------------------------------------------------
(* C10 *)

\* C10: the display window of the initial render has equal width on both
\* axes and contains every position of every joint at every time step.
\* (The window is in tenths.)
C10_DisplayWindowSquareContainsAll ==
    rtLog # <<>> =>
        /\ rtWindow.xaxis[2] - rtWindow.xaxis[1] = rtWindow.yaxis[2] - rtWindow.yaxis[1]
        /\ \A p \in EveryPosition :
              /\ rtWindow.xaxis[1] <= 10 * p[1]
              /\ 10 * p[1] <= rtWindow.xaxis[2]
              /\ rtWindow.yaxis[1] <= 10 * p[2]
              /\ 10 * p[2] <= rtWindow.yaxis[2]

\* The initial render of a series wider than it is high.
C10_Witness ==
    /\ rtLog # <<>>
    /\ ValidSeries
    /\ view.xmax - view.xmin > view.ymax - view.ymin
    /\ view.ymax - view.ymin > 0

=============================================================================
